---- MODULE Spec2Model ----
(***************************************************************************)
(* RITEnvironment (src/market.py): the order ledger, the reconciliation of *)
(* delayed fills, the execution dispatcher, the reward policy and the VWAP *)
(* calculator, as a state machine.  The exchange is the environment: every *)
(* gateway call draws its response from a small set of samples, the        *)
(* non-ok response included.                                               *)
(*                                                                         *)
(* Numbers: prices, rewards and portions are exact rationals <<n, d>> with *)
(* d > 0 in lowest terms (Python's float rounding is not modelled); None   *)
(* is NULL == << >>; a raised exception is RAISE.                          *)
(***************************************************************************)
EXTENDS Integers, Sequences, FiniteSets, TLC

VARIABLES
    reward_signal,   \* self.reward_signal: [collection, method]
    direction,       \* self.direction
    time,            \* self.time: the tick polled last
    status,          \* self.status: the status polled last
    position,        \* self.position: [none, v]
    cost,            \* self.cost: a rational, or NULL
    order_history,   \* self.order_history: the ledger, a sequence of rows
    delayed_reward,  \* self.delayed_reward
    pc,              \* where the caller / the running step or reset stands
    action,          \* step's argument <<trade_type, price, quantity>>, which
                     \* _execute_trade alone reads: drawn there, gone after
    scan,            \* _delayed_fill: the next row of the ledger to look at
    reward,          \* step's local `reward`
    ret,             \* what step returns: [reward, done]
    calls,           \* the gateway calls of the operation in progress
    resp,            \* the gateway's last answers, as the code read them
    nsteps,          \* steps taken so far (bounds the exploration)
    nresets,         \* resets taken so far (bounds the exploration)
    probe,           \* the argument and result of a pure function under test
    kept             \* the rows the pass of this step polled and left as they were

vars == <<reward_signal, direction, time, status, position, cost, order_history,
          delayed_reward, pc, action, scan, reward, ret, calls, resp, nsteps,
          nresets, probe, kept>>

---------------------------------------------------------------------------
(* Bounds of the exploration. *)
MaxTick == 3          \* ticks 0..MaxTick
MaxQty == 1           \* an action's quantity is in 0..MaxQty
MaxLimitPrice == 1    \* an action's price is in 1..MaxLimitPrice
MaxPrice == 1         \* the exchange's prices are in 1..MaxPrice
MaxOrders == 2        \* rows in the ledger
MaxSteps == 2         \* steps in a behaviour
MaxResets == 1        \* resets in a behaviour
MaxPolls == 2         \* status polls of one reset
MaxTape == 2          \* trades on a tape given to the VWAP calculator alone

(* Parameters of the environment (params, lines 47-56), at model scale. *)
start_time == 1
end_time == 2
inventory == 3

NULL == << >>
RAISE == <<"raise">>

---------------------------------------------------------------------------
(* Python's arithmetic on numbers, exact. *)
Abs(i) == IF i < 0 THEN -i ELSE i

RECURSIVE Gcd(_, _)
Gcd(a, b) == IF b = 0 THEN a ELSE Gcd(b, a % b)

Num(n, d) ==
    LET g == Gcd(Abs(n), Abs(d))
        s == IF d < 0 THEN -1 ELSE 1
    IN  <<(s * n) \div g, (s * d) \div g>>

Whole(i) == <<i, 1>>
Add(a, b) == Num(a[1] * b[2] + b[1] * a[2], a[2] * b[2])
Sub(a, b) == Num(a[1] * b[2] - b[1] * a[2], a[2] * b[2])
Mul(a, b) == Num(a[1] * b[1], a[2] * b[2])
Less(a, b) == a[1] * b[2] < b[1] * a[2]

---------------------------------------------------------------------------
(* The exchange's answers. *)
Ticks == 0 .. MaxTick
Prices == {Whole(p) : p \in 1 .. MaxPrice}

\* GET case: status, tick (ticks_per_period is read by __init__ alone)
CaseResponses ==
    {[ok |-> TRUE, status |-> "ACTIVE", tick |-> t] : t \in Ticks \ {0}}
    \cup {[ok |-> TRUE, status |-> "STOPPED", tick |-> 0],
          [ok |-> FALSE, status |-> "", tick |-> 0]}

\* GET securities: the signed position (one unit sold short) and its vwap
PositionResponses ==
    {[ok |-> TRUE, position |-> -1, vwap |-> Whole(1)],
     [ok |-> FALSE, position |-> 0, vwap |-> NULL]}

\* what the exchange reports of an order's fills: no vwap before the first fill
Fills ==
    {[quantity_filled |-> 0, vwap |-> NULL]}
    \cup {[quantity_filled |-> f, vwap |-> v] : f \in 1 .. MaxQty + 1, v \in Prices}

\* GET orders/{id}
OrderResponses ==
    {[ok |-> TRUE, quantity_filled |-> f.quantity_filled, vwap |-> f.vwap, status |-> s] :
        f \in Fills, s \in {"OPEN", "CANCELLED"}}
    \cup {[ok |-> TRUE, quantity_filled |-> f.quantity_filled, vwap |-> f.vwap,
           status |-> "TRANSACTED"] : f \in Fills \ {[quantity_filled |-> 0, vwap |-> NULL]}}
    \cup {[ok |-> FALSE, quantity_filled |-> 0, vwap |-> NULL, status |-> ""]}

\* POST orders: the exchange's tick is the one polled at the start of the step
PostResponses ==
    {[ok |-> TRUE, status |-> s, quantity_filled |-> f.quantity_filled, vwap |-> f.vwap] :
        f \in Fills, s \in {"OPEN", "TRANSACTED"}}
    \cup {[ok |-> TRUE, status |-> "cancelled", quantity_filled |-> 0, vwap |-> NULL],
          [ok |-> FALSE, status |-> "", quantity_filled |-> 0, vwap |-> NULL]}

\* GET securities/tas: the trade tape
TapeEntries(P, Q) ==
    {[tick |-> t, price |-> p, quantity |-> q] :
        t \in {start_time - 1, start_time}, p \in P, q \in Q}

RECURSIVE TapesOfLen(_, _, _)
TapesOfLen(n, P, Q) ==
    IF n = 0 THEN {<< >>}
    ELSE {Append(t, e) : t \in TapesOfLen(n - 1, P, Q), e \in TapeEntries(P, Q)}

TapeResponsesUpTo(n, P, Q) ==
    {[ok |-> TRUE, tape |-> t] : t \in UNION {TapesOfLen(k, P, Q) : k \in 0 .. n}}
    \cup {[ok |-> FALSE, tape |-> << >>]}

\* the tapes the environment's gateway calls draw from: at most one trade
TapeResponses == TapeResponsesUpTo(1, 1 .. MaxPrice, {1})

---------------------------------------------------------------------------
(* The gateway. *)

\* _get_tick_status
get_tick_status(r) ==
    IF r.ok THEN [status |-> r.status, tick |-> r.tick]
    ELSE [status |-> "PAUSED", tick |-> 0]

\* _get_position
get_position(r) ==
    IF r.ok THEN [position |-> [none |-> FALSE, v |-> Abs(r.position)], cost |-> r.vwap]
    ELSE [position |-> [none |-> TRUE, v |-> 0], cost |-> NULL]

\* _get_order
get_order(r) ==
    IF r.ok THEN [none |-> FALSE, filled |-> r.quantity_filled, vwap |-> r.vwap,
                  status |-> r.status]
    ELSE [none |-> TRUE, filled |-> -1, vwap |-> NULL, status |-> ""]

\* _post_order; the exchange's order ids are fresh
post_order(r, oid, now) ==
    IF r.ok THEN [status |-> r.status, order_id |-> oid,
                  quantity_filled |-> r.quantity_filled, vwap |-> r.vwap,
                  tick |-> now]
    ELSE [status |-> "failed", order_id |-> -1, quantity_filled |-> -1,
          vwap |-> Whole(-1), tick |-> -1]

---------------------------------------------------------------------------
(* The VWAP calculator. *)
RECURSIVE tape_quantity(_)
tape_quantity(tape) ==
    IF tape = << >> THEN 0
    ELSE (IF Head(tape).tick >= start_time THEN Head(tape).quantity ELSE 0)
         + tape_quantity(Tail(tape))

RECURSIVE tape_weighted(_)
tape_weighted(tape) ==
    IF tape = << >> THEN 0
    ELSE (IF Head(tape).tick >= start_time
          THEN Head(tape).price * Head(tape).quantity ELSE 0)
         + tape_weighted(Tail(tape))

\* a bug lines 337-338 could have: None when no trade is left after the filter
calc_vwap_filtered(r) ==
    IF ~r.ok THEN NULL
    ELSE IF \A k \in DOMAIN r.tape : r.tape[k].tick < start_time THEN NULL
    ELSE IF tape_quantity(r.tape) = 0 THEN Whole(0)
    ELSE Num(tape_weighted(r.tape), tape_quantity(r.tape))

\* _calc_vwap (lines 325-343)
calc_vwap(r) ==
    IF ~r.ok THEN NULL
    ELSE IF Len(r.tape) = 0 THEN NULL
    ELSE IF tape_quantity(r.tape) = 0 THEN Whole(0)
    ELSE Num(tape_weighted(r.tape), tape_quantity(r.tape))

---------------------------------------------------------------------------
(* The reward policy: _calc_reward, given the market vwap its own call of  *)
(* _calc_vwap returned.  Arithmetic on None raises TypeError.              *)
\* a bug line 229 could have: VWAP_TARGET scores the comparison at termination
calc_reward_compare_at_end(quantity, vwap_e, portion, done, vwap_m) ==
    IF vwap_e = NULL THEN Whole(0)
    ELSE IF reward_signal.collection = "terminal" THEN
        IF done
        THEN IF vwap_m = NULL THEN RAISE
             ELSE Mul(Mul(Whole(quantity), Sub(vwap_e, vwap_m)), Whole(direction))
        ELSE Whole(0)
    ELSE IF reward_signal.method = "VWAP_PNL" THEN
        IF done
        THEN IF vwap_m = NULL THEN RAISE
             ELSE Mul(Mul(Whole(quantity), vwap_m), Whole(-direction))
        ELSE Mul(Mul(Whole(quantity), vwap_e), Whole(direction))
    ELSE IF reward_signal.method = "VWAP_TARGET" THEN
        IF vwap_m = NULL THEN RAISE
        ELSE IF done
        THEN Mul(Mul(Whole(quantity), Sub(vwap_e, vwap_m)), Whole(direction))
        ELSE Mul(Mul(Sub(vwap_e, vwap_m), Whole(direction)), portion)
    ELSE Whole(0)

\* a bug line 229 could have: the direction is left out of VWAP_TARGET
calc_reward_undirected(quantity, vwap_e, portion, done, vwap_m) ==
    IF vwap_e = NULL THEN Whole(0)
    ELSE IF reward_signal.collection = "terminal" THEN
        IF done
        THEN IF vwap_m = NULL THEN RAISE
             ELSE Mul(Mul(Whole(quantity), Sub(vwap_e, vwap_m)), Whole(direction))
        ELSE Whole(0)
    ELSE IF reward_signal.method = "VWAP_PNL" THEN
        IF done
        THEN IF vwap_m = NULL THEN RAISE
             ELSE Mul(Mul(Whole(quantity), vwap_m), Whole(-direction))
        ELSE Mul(Mul(Whole(quantity), vwap_e), Whole(direction))
    ELSE IF reward_signal.method = "VWAP_TARGET" THEN
        IF done THEN Whole(0)
        ELSE IF vwap_m = NULL THEN RAISE
             ELSE Mul(Sub(vwap_e, vwap_m), portion)
    ELSE Whole(0)

\* a bug line 227 could have: VWAP_PNL liquidates at the execution price
calc_reward_pnl_at_execution(quantity, vwap_e, portion, done, vwap_m) ==
    IF vwap_e = NULL THEN Whole(0)
    ELSE IF reward_signal.collection = "terminal" THEN
        IF done
        THEN IF vwap_m = NULL THEN RAISE
             ELSE Mul(Mul(Whole(quantity), Sub(vwap_e, vwap_m)), Whole(direction))
        ELSE Whole(0)
    ELSE IF reward_signal.method = "VWAP_PNL" THEN
        IF done
        THEN IF vwap_m = NULL THEN RAISE
             ELSE Mul(Mul(Whole(quantity), vwap_e), Whole(-direction))
        ELSE Mul(Mul(Whole(quantity), vwap_e), Whole(direction))
    ELSE IF reward_signal.method = "VWAP_TARGET" THEN
        IF done THEN Whole(0)
        ELSE IF vwap_m = NULL THEN RAISE
             ELSE Mul(Mul(Sub(vwap_e, vwap_m), Whole(direction)), portion)
    ELSE Whole(0)

\* _calc_reward (lines 219-231)
calc_reward(quantity, vwap_e, portion, done, vwap_m) ==
    IF vwap_e = NULL THEN Whole(0)
    ELSE IF reward_signal.collection = "terminal" THEN
        IF done
        THEN IF vwap_m = NULL THEN RAISE
             ELSE Mul(Mul(Whole(quantity), Sub(vwap_e, vwap_m)), Whole(direction))
        ELSE Whole(0)
    ELSE IF reward_signal.method = "VWAP_PNL" THEN
        IF done
        THEN IF vwap_m = NULL THEN RAISE
             ELSE Mul(Mul(Whole(quantity), vwap_m), Whole(-direction))
        ELSE Mul(Mul(Whole(quantity), vwap_e), Whole(direction))
    ELSE IF reward_signal.method = "VWAP_TARGET" THEN
        IF done THEN Whole(0)
        ELSE IF vwap_m = NULL THEN RAISE
             ELSE Mul(Mul(Sub(vwap_e, vwap_m), Whole(direction)), portion)
    ELSE Whole(0)

---------------------------------------------------------------------------
(* The ledger. *)
Row(order_id, i_placed, i_filled, i_cancelled, price, quantity, filled, vwap, active) ==
    [order_id |-> order_id, i_placed |-> i_placed, i_filled |-> i_filled,
     i_cancelled |-> i_cancelled, price |-> price, quantity |-> quantity,
     filled |-> filled, vwap |-> vwap, active |-> active]

\* a bug line 154 could have: the portion is always the whole order
fill_portion_whole(executed_quantity, order) == Whole(1)

\* line 154: the portion of the order a fill is
fill_portion(executed_quantity, order) == Num(executed_quantity, order.quantity)

\* line 148: a fill is detected
\* a bug line 148 could have: the comparison with the stored value is left out
fill_detected_any_answer(got, order) == ~got.none

\* line 148
fill_detected(got, order) == got.filled # order.filled /\ ~got.none

\* lines 158-161: the row of a detected fill, rewritten
filled_row(order, got) ==
    [order EXCEPT !.i_filled = time, !.filled = got.filled, !.vwap = got.vwap,
                  !.active = (got.status = "OPEN")]

\* a bug lines 322-323 could have: the rows are deactivated and not stamped
cancelled_history_unstamped ==
    [j \in DOMAIN order_history |-> [order_history[j] EXCEPT !.active = FALSE]]

\* a bug line 322 could have: every row is stamped, the inactive ones too
cancelled_history_restamped ==
    [j \in DOMAIN order_history |->
        [order_history[j] EXCEPT !.i_cancelled = time, !.active = FALSE]]

\* lines 322-323: what cancel-all does to the ledger
cancelled_history ==
    [j \in DOMAIN order_history |->
        [order_history[j] EXCEPT
            !.i_cancelled = IF order_history[j].active THEN time ELSE @,
            !.active = FALSE]]

\* a bug line 201 could have: only the sentinel status is refused
accepted_unless_failed(st) == st # "failed"

\* line 201: the exchange took the order
accepted(st) == st \notin {"failed", "cancelled"}

\* a bug lines 176-177 could have: the quantity is not looked at
coerced_never(trade_type, quantity) == trade_type

\* lines 176-177: no quantity, no order
coerced(trade_type, quantity) == IF quantity = 0 THEN 2 ELSE trade_type

\* lines 183, 194
side == IF direction = 1 THEN "SELL" ELSE "BUY"

\* a bug line 189 could have: the whole inventory is sold again
market_quantity_inventory(pos) == inventory

\* line 189
market_quantity(pos) == Abs(inventory - pos.v)

\* a bug line 132 could have: the episode ends only on the tick itself
is_done_on_tick == time = end_time

\* line 132
is_done == time >= end_time

\* a gateway call, as the log keeps it
Call(op) == [op |-> op, arg |-> << >>]
OrderCall(oid) == [op |-> "order", arg |-> <<oid>>]
PostCall(type, quantity, price) == [op |-> "post", arg |-> <<type, quantity, price, side>>]

NoResp == [op |-> "none", none |-> FALSE, status |-> "", filled |-> 0,
           vwap |-> NULL, vwap_m |-> NULL]
NoAction == <<2, 0, 0>>
NoRet == [reward |-> Whole(0), done |-> FALSE]
NoProbe == [fn |-> "none"]

Actions == (0 .. 3) \X (1 .. MaxLimitPrice) \X (0 .. MaxQty)

\* the first active row at or after row i, 0 when there is none
\* a bug line 165 could have: the pass goes over every row, active or not
next_row(i) == IF i > Len(order_history) THEN 0 ELSE i

RECURSIVE next_active(_)
next_active(i) ==
    IF i > Len(order_history) THEN 0
    ELSE IF order_history[i].active THEN i
    ELSE next_active(i + 1)

---------------------------------------------------------------------------
(* __init__ (lines 58-78): the state after construction. *)

\* params['reward_signal']: under collection "terminal" the method is not read
RewardSignals ==
    {[collection |-> "terminal", method |-> "VWAP_TARGET"],
     [collection |-> "harvested", method |-> "VWAP_PNL"],
     [collection |-> "harvested", method |-> "VWAP_TARGET"]}

Init ==
    /\ reward_signal \in RewardSignals
    /\ direction \in {1, -1}
    /\ \E c \in CaseResponses :
          /\ status = get_tick_status(c).status
          /\ time = get_tick_status(c).tick
    /\ \E p \in PositionResponses :
          /\ position = get_position(p).position
          /\ cost = get_position(p).cost
    /\ order_history = << >>
    /\ delayed_reward = Whole(0)
    /\ pc = "idle"
    /\ action = NoAction
    /\ scan = 1
    /\ reward = Whole(0)
    /\ ret = NoRet
    /\ calls = << >>
    /\ resp = NoResp
    /\ nsteps = 0
    /\ nresets = 0
    /\ probe = NoProbe
    /\ kept = {}

---------------------------------------------------------------------------
(* step (lines 112-140), phase by phase. *)

\* line 114: the caller enters step; the tick and status are polled
Step ==
    /\ pc = "idle"
    /\ nsteps < MaxSteps
    /\ \E c \in CaseResponses :
          /\ status' = get_tick_status(c).status
          /\ time' = get_tick_status(c).tick
    /\ pc' = "delayed_fill"
    /\ action' = NoAction
    /\ scan' = 1
    /\ reward' = Whole(0)
    /\ ret' = NoRet
    /\ calls' = <<Call("case")>>
    /\ resp' = NoResp
    /\ nsteps' = nsteps + 1
    /\ kept' = {}
    /\ UNCHANGED <<reward_signal, direction, position, cost, order_history,
                   delayed_reward, nresets, probe>>

\* lines 142-161, 166: _delayed_helper on the next active row
DelayedHelper ==
    /\ pc = "delayed_fill"
    /\ next_active(scan) # 0
    /\ \E r \in OrderResponses :
        LET i == next_active(scan)
            order == order_history[i]
            got == get_order(r)
            executed_quantity == Abs(got.filled - order.filled)
            seen == [op |-> "order", none |-> got.none, status |-> got.status,
                     filled |-> got.filled, vwap |-> got.vwap, vwap_m |-> NULL]
        IN  IF ~fill_detected(got, order)
            THEN /\ calls' = Append(calls, OrderCall(order.order_id))
                 /\ resp' = seen
                 /\ scan' = i + 1
                 /\ kept' = kept \cup {i}
                 /\ UNCHANGED <<pc, order_history, delayed_reward>>
            ELSE IF order.quantity = 0
            THEN \* executed_quantity / 0
                 /\ calls' = Append(calls, OrderCall(order.order_id))
                 /\ resp' = seen
                 /\ pc' = "raised"
                 /\ UNCHANGED <<scan, order_history, delayed_reward, kept>>
            ELSE \E t \in TapeResponses :
                 LET vwap_m == calc_vwap(t)
                     rew == calc_reward(executed_quantity, got.vwap,
                                        fill_portion(executed_quantity, order),
                                        FALSE, vwap_m)
                 IN
                 /\ calls' = calls \o <<OrderCall(order.order_id), Call("tas")>>
                 /\ resp' = [seen EXCEPT !.vwap_m = vwap_m]
                 /\ IF rew = RAISE
                    THEN /\ pc' = "raised"
                         /\ UNCHANGED <<scan, order_history, delayed_reward, kept>>
                    ELSE /\ delayed_reward' = Add(delayed_reward, rew)
                         /\ order_history' =
                              [j \in DOMAIN order_history |->
                                 IF order_history[j].order_id = order.order_id
                                 THEN filled_row(order_history[j], got)
                                 ELSE order_history[j]]
                         /\ scan' = i + 1
                         /\ UNCHANGED <<pc, kept>>
    /\ UNCHANGED <<reward_signal, direction, time, status, position, cost, action,
                   reward, ret, nsteps, nresets, probe>>

\* a bug step could have: the action is dispatched before the pass is over
DelayedFillEnd_early ==
    /\ pc = "delayed_fill"
    /\ \E p \in PositionResponses :
          /\ position' = get_position(p).position
          /\ cost' = get_position(p).cost
    /\ reward' = delayed_reward
    /\ delayed_reward' = Whole(0)
    /\ calls' = Append(calls, Call("securities"))
    /\ resp' = NoResp
    /\ pc' = "execute"
    /\ UNCHANGED <<reward_signal, direction, time, status, order_history, action,
                   scan, ret, nsteps, nresets, probe, kept>>

\* a bug line 119 could have: the deferred reward is taken and not reset
DelayedFillEnd_unreset ==
    /\ pc = "delayed_fill"
    /\ next_active(scan) = 0
    /\ \E p \in PositionResponses :
          /\ position' = get_position(p).position
          /\ cost' = get_position(p).cost
    /\ reward' = delayed_reward
    /\ calls' = Append(calls, Call("securities"))
    /\ resp' = NoResp
    /\ pc' = "execute"
    /\ UNCHANGED <<reward_signal, direction, time, status, order_history, action,
                   delayed_reward, scan, ret, nsteps, nresets, probe, kept>>

\* lines 170, 118-119: the pass is over; the deferred reward is taken
DelayedFillEnd ==
    /\ pc = "delayed_fill"
    /\ next_active(scan) = 0
    /\ \E p \in PositionResponses :
          /\ position' = get_position(p).position
          /\ cost' = get_position(p).cost
    /\ reward' = delayed_reward
    /\ delayed_reward' = Whole(0)
    /\ calls' = Append(calls, Call("securities"))
    /\ resp' = NoResp
    /\ pc' = "execute"
    /\ UNCHANGED <<reward_signal, direction, time, status, order_history, action,
                   scan, ret, nsteps, nresets, probe, kept>>

\* lines 180-183 / 191-194, 201-217: the order is posted and, if the exchange
\* took it, recorded and scored.  hist and log are the ledger and the call log
\* the submission finds; price is the action's, post_price the one posted.
Submit(type, quantity, price, post_price, hist, log, r) ==
    LET p == post_order(r, Len(hist) + 1, time)
        seen == [op |-> "post", none |-> FALSE, status |-> p.status,
                 filled |-> p.quantity_filled, vwap |-> p.vwap, vwap_m |-> NULL]
    IN  IF accepted(p.status)
        THEN \E t \in TapeResponses :
             LET vwap_m == calc_vwap(t)
                 rew == calc_reward(price * quantity, p.vwap, Whole(1), FALSE, vwap_m)
             IN
             /\ order_history' =
                  Append(hist, Row(p.order_id, p.tick,
                                   IF p.quantity_filled > 0 THEN p.tick ELSE -1,
                                   -1, price, quantity, p.quantity_filled, p.vwap,
                                   p.status = "OPEN"))
             /\ calls' = log \o <<PostCall(type, quantity, post_price), Call("tas")>>
             /\ resp' = [seen EXCEPT !.vwap_m = vwap_m]
             /\ IF rew = RAISE
                THEN pc' = "raised" /\ UNCHANGED reward
                ELSE pc' = "refresh" /\ reward' = Add(reward, rew)
        ELSE /\ order_history' = hist
             /\ calls' = Append(log, PostCall(type, quantity, post_price))
             /\ resp' = seen
             /\ pc' = "refresh"
             /\ reward' = Add(reward, Whole(0))

\* lines 179-183: a limit order
ExecuteLimit(a) ==
    /\ pc = "execute"
    /\ action' = a
    /\ coerced(a[1], a[3]) = 0
    /\ Len(order_history) < MaxOrders
    /\ \E r \in PostResponses :
          Submit("LIMIT", a[3], a[2], a[2], order_history, calls, r)
    /\ UNCHANGED <<reward_signal, direction, time, status, position, cost,
                   delayed_reward, scan, ret, nsteps, nresets, probe, kept>>

\* lines 184-194: a market order, after cancel-all and a fresh position
ExecuteMarket(a) ==
    /\ pc = "execute"
    /\ action' = a
    /\ coerced(a[1], a[3]) = 1
    /\ Len(order_history) < MaxOrders
    /\ \E g \in PositionResponses :
        LET log == calls \o <<Call("cancel"), Call("orders"), Call("securities")>>
            pos == get_position(g).position
        IN  /\ position' = pos
            /\ cost' = get_position(g).cost
            /\ IF pos.none
               THEN \* self.inventory - None
                    /\ order_history' = cancelled_history
                    /\ calls' = log
                    /\ resp' = NoResp
                    /\ pc' = "raised"
                    /\ UNCHANGED reward
               ELSE \E r \in PostResponses :
                      Submit("MARKET", market_quantity(pos), a[2], 0,
                             cancelled_history, log, r)
    /\ UNCHANGED <<reward_signal, direction, time, status, delayed_reward,
                   scan, ret, nsteps, nresets, probe, kept>>

\* lines 195-196: hold
ExecuteHold(a) ==
    /\ pc = "execute"
    /\ action' = a
    /\ coerced(a[1], a[3]) = 2
    /\ pc' = "refresh"
    /\ reward' = Add(reward, Whole(0))
    /\ UNCHANGED <<reward_signal, direction, time, status, position, cost,
                   order_history, delayed_reward, scan, ret, calls, resp,
                   nsteps, nresets, probe, kept>>

\* lines 197-199: cancel
ExecuteCancel(a) ==
    /\ pc = "execute"
    /\ action' = a
    /\ coerced(a[1], a[3]) \notin {0, 1, 2}
    /\ order_history' = cancelled_history
    /\ calls' = calls \o <<Call("cancel"), Call("orders")>>
    /\ pc' = "refresh"
    /\ reward' = Add(reward, Whole(0))
    /\ UNCHANGED <<reward_signal, direction, time, status, position, cost,
                   delayed_reward, scan, ret, resp, nsteps, nresets, probe, kept>>

\* lines 124-140: the refresh, the observation, the done test, the terminal term
StepFinish ==
    /\ pc = "refresh"
    /\ \E g \in PositionResponses :
        LET c == get_position(g).cost
            log == calls \o <<Call("securities"), Call("tas"), Call("orders"),
                              Call("book"), Call("tas")>>
        IN  /\ position' = get_position(g).position
            /\ cost' = c
            /\ IF is_done
               THEN \E t \in TapeResponses :
                    LET vwap_m == calc_vwap(t)
                        term == calc_reward(inventory, c, Whole(1), TRUE, vwap_m)
                    IN
                    /\ calls' = Append(log, Call("tas"))
                    /\ resp' = [NoResp EXCEPT !.op = "final", !.vwap_m = vwap_m]
                    /\ IF term = RAISE
                       THEN pc' = "raised" /\ UNCHANGED <<reward, ret>>
                       ELSE /\ pc' = "return"
                            /\ reward' = Add(reward, term)
                            /\ ret' = [reward |-> Add(reward, term), done |-> TRUE]
               ELSE /\ calls' = log
                    /\ resp' = [NoResp EXCEPT !.op = "final"]
                    /\ pc' = "return"
                    /\ ret' = [reward |-> reward, done |-> FALSE]
                    /\ UNCHANGED reward
    /\ action' = NoAction
    /\ UNCHANGED <<reward_signal, direction, time, status, order_history,
                   delayed_reward, scan, nsteps, nresets, probe, kept>>

\* line 140: step returns; its locals are gone
StepReturn ==
    /\ pc = "return"
    /\ pc' = "idle"
    /\ scan' = 1
    /\ reward' = Whole(0)
    /\ ret' = NoRet
    /\ calls' = << >>
    /\ resp' = NoResp
    /\ UNCHANGED <<reward_signal, direction, time, status, position, cost,
                   order_history, delayed_reward, action, nsteps, nresets, probe, kept>>

---------------------------------------------------------------------------
(* reset (lines 80-94). *)

\* line 86: the condition of the wait loop
waiting == (status = "ACTIVE" /\ Abs(time - start_time) > 1) \/ status = "STOPPED"

\* lines 81-85
ResetBegin ==
    /\ pc = "idle"
    /\ nresets < MaxResets
    /\ order_history' = << >>
    /\ delayed_reward' = Whole(0)
    /\ \E c \in CaseResponses :
          /\ status' = get_tick_status(c).status
          /\ time' = get_tick_status(c).tick
    /\ calls' = <<Call("case")>>
    /\ pc' = "reset_wait"
    /\ nresets' = nresets + 1
    /\ kept' = {}
    /\ UNCHANGED <<reward_signal, direction, position, cost, action, scan, reward,
                   ret, resp, nsteps, probe>>

\* lines 86-87
ResetPoll ==
    /\ pc = "reset_wait"
    /\ waiting
    /\ Len(calls) < MaxPolls
    /\ \E c \in CaseResponses :
          /\ status' = get_tick_status(c).status
          /\ time' = get_tick_status(c).tick
    /\ calls' = Append(calls, Call("case"))
    /\ UNCHANGED <<reward_signal, direction, position, cost, order_history,
                   delayed_reward, pc, action, scan, reward, ret, resp, nsteps,
                   nresets, probe, kept>>

\* lines 90-94
ResetEnd ==
    /\ pc = "reset_wait"
    /\ ~waiting
    /\ \E g \in PositionResponses :
          /\ position' = get_position(g).position
          /\ cost' = get_position(g).cost
    /\ calls' = calls \o <<Call("securities"), Call("tas"), Call("orders"),
                           Call("book"), Call("tas")>>
    /\ pc' = "reset_return"
    /\ UNCHANGED <<reward_signal, direction, time, status, order_history,
                   delayed_reward, action, scan, reward, ret, resp, nsteps,
                   nresets, probe, kept>>

\* line 94: reset returns
ResetReturn ==
    /\ pc = "reset_return"
    /\ pc' = "idle"
    /\ calls' = << >>
    /\ UNCHANGED <<reward_signal, direction, time, status, position, cost,
                   order_history, delayed_reward, action, scan, reward, ret, resp,
                   nsteps, nresets, probe, kept>>

---------------------------------------------------------------------------
Next ==
    \/ Step
    \/ DelayedHelper
    \/ DelayedFillEnd
    \/ \E a \in Actions : ExecuteLimit(a)
    \/ \E a \in Actions : ExecuteMarket(a)
    \/ \E a \in Actions : ExecuteHold(a)
    \/ \E a \in Actions : ExecuteCancel(a)
    \/ StepFinish
    \/ StepReturn
    \/ ResetBegin
    \/ ResetPoll
    \/ ResetEnd
    \/ ResetReturn

Spec == Init /\ [][Next]_vars

---------------------------------------------------------------------------
(* The pure functions, each applied to arguments drawn from bounded sets.  *)
(* The environment itself stands still.                                    *)
Parked ==
    /\ time = 0
    /\ status = "PAUSED"
    /\ position = [none |-> TRUE, v |-> 0]
    /\ cost = NULL
    /\ order_history = << >>
    /\ delayed_reward = Whole(0)
    /\ pc = "probe"
    /\ action = NoAction
    /\ scan = 1
    /\ reward = Whole(0)
    /\ ret = NoRet
    /\ calls = << >>
    /\ resp = NoResp
    /\ nsteps = 0
    /\ nresets = 0
    /\ kept = {}

parked == <<reward_signal, direction, time, status, position, cost, order_history,
            delayed_reward, pc, action, scan, reward, ret, calls, resp, nsteps, nresets,
            kept>>

\* _calc_vwap on every tape of at most MaxTape trades
InitVwap ==
    /\ Parked
    /\ reward_signal = [collection |-> "harvested", method |-> "VWAP_TARGET"]
    /\ direction = 1
    /\ probe \in {[fn |-> "calc_vwap", resp |-> r, returned |-> FALSE, out |-> NULL] :
                    r \in TapeResponsesUpTo(MaxTape, 1 .. MaxPrice + 1, {0, 1})}

CalcVwap ==
    /\ probe.fn = "calc_vwap"
    /\ ~probe.returned
    /\ probe' = [probe EXCEPT !.returned = TRUE, !.out = calc_vwap(probe.resp)]
    /\ UNCHANGED parked

SpecVwap == InitVwap /\ [][CalcVwap]_vars

\* _calc_reward under every reward signal and direction
AllRewardSignals ==
    {[collection |-> c, method |-> m] :
        c \in {"terminal", "harvested"}, m \in {"VWAP_PNL", "VWAP_TARGET"}}

ProbePrices == {NULL, Whole(0)} \cup {Whole(p) : p \in 1 .. MaxPrice + 1}

InitReward ==
    /\ Parked
    /\ reward_signal \in AllRewardSignals
    /\ direction \in {1, -1}
    /\ probe \in {[fn |-> "calc_reward", quantity |-> q, vwap_e |-> e, portion |-> f,
                    done |-> d, vwap_m |-> m, returned |-> FALSE, out |-> NULL] :
                    q \in 0 .. MaxQty + 1, e \in ProbePrices,
                    f \in {Num(k, MaxQty + 1) : k \in 0 .. MaxQty + 1},
                    d \in BOOLEAN, m \in ProbePrices}

CalcReward ==
    /\ probe.fn = "calc_reward"
    /\ ~probe.returned
    /\ probe' = [probe EXCEPT !.returned = TRUE,
                              !.out = calc_reward(probe.quantity, probe.vwap_e,
                                                  probe.portion, probe.done,
                                                  probe.vwap_m)]
    /\ UNCHANGED parked

SpecReward == InitReward /\ [][CalcReward]_vars

---------------------------------------------------------------------------
(* The claims. *)

\* a LIMIT or MARKET submission was made by this transition and was refused
SubmissionRefused ==
    /\ pc = "execute"
    /\ resp'.op = "post"
    /\ resp'.status \in {"failed", "cancelled"}

\* the ledger after cancel-all, row by row, as the specification describes it
CancelledRow(row, now) ==
    [row EXCEPT !.active = FALSE,
                !.i_cancelled = IF row.active THEN now ELSE row.i_cancelled]

\* C1: whatever get_order answers, a reconciliation pass never lowers a row's
\* filled quantity and never leaves a row it rewrites with a filled quantity
\* greater than its target quantity
C1_LedgerMonotone ==
    [][pc = "delayed_fill" =>
         \A j \in DOMAIN order_history :
            /\ order_history'[j].filled >= order_history[j].filled
            /\ order_history'[j] # order_history[j] =>
                 order_history'[j].filled <= order_history'[j].quantity]_vars

\* C2: a refused submission (status failed or cancelled, the unreachable
\* exchange's sentinel included) adds no row, and the ledger grows only by one
\* row, only in a submission whose status is outside {failed, cancelled}
C2_NoPhantomEntries ==
    [][/\ SubmissionRefused => Len(order_history') = Len(order_history)
       /\ Len(order_history') > Len(order_history) =>
            /\ Len(order_history') = Len(order_history) + 1
            /\ pc = "execute"
            /\ resp'.op = "post"
            /\ resp'.status \notin {"failed", "cancelled"}]_vars

C2_Witness ==
    /\ pc = "refresh"
    /\ resp.op = "post"
    /\ resp.status = "cancelled"
    /\ Len(order_history) = 1

\* C3, as stated: a refused LIMIT or MARKET submission adds reward 0 and leaves
\* every field of every row as it was before the dispatch
C3_Original ==
    [][SubmissionRefused =>
         /\ reward' = reward
         /\ order_history' = order_history]_vars

\* C3, amended: a refused submission adds reward 0 and no row; a refused LIMIT
\* leaves every row as it was, and a refused MARKET leaves the rows as its
\* cancel-all made them: inactive, the rows active before stamped cancelled at
\* the current tick, every other field as before
C3_FailedSubmission ==
    [][SubmissionRefused =>
         /\ reward' = reward
         /\ Len(order_history') = Len(order_history)
         /\ action'[1] = 0 => order_history' = order_history
         /\ action'[1] = 1 =>
              \A j \in DOMAIN order_history :
                 order_history'[j] = CancelledRow(order_history[j], time)]_vars

C3_Witness ==
    /\ pc = "refresh"
    /\ resp.op = "post"
    /\ resp.status = "failed"
    /\ action[1] = 1
    /\ \E j \in DOMAIN order_history :
          /\ order_history[j].i_cancelled = time
          /\ order_history[j].i_placed # time

\* C4: a dispatch with quantity 0, whatever the type and price, makes no
\* gateway call, changes no row and adds reward 0, as HOLD does
C4_ZeroQuantity ==
    [][(pc = "execute" /\ pc' # "execute" /\ action'[3] = 0) =>
         /\ pc' = "refresh"
         /\ calls' = calls
         /\ order_history' = order_history
         /\ reward' = reward
         /\ position' = position
         /\ cost' = cost]_vars

C4_Witness ==
    /\ pc = "refresh"
    /\ action[1] = 1
    /\ action[3] = 0
    /\ \E j \in DOMAIN order_history : order_history[j].active

\* C5: a pass over an active row (filled f, target q) for which get_order
\* answers a non-null filled g # f, vwap v and status st adds to the deferred
\* reward exactly reward(|g - f|, v, |g - f| / q, not terminal) and rewrites the
\* row: filled_at the current tick, filled g, vwap v, active iff st is OPEN;
\* and f=40, g=70, q=100, v=9.5 against a market vwap of 9.0, direction 1,
\* harvested/VWAP_TARGET, is worth 0.15
C5_DetectedFill ==
    [][/\ (pc = "delayed_fill" /\ scan' # scan /\ ~resp'.none
           /\ resp'.filled # order_history[scan' - 1].filled) =>
            LET row == order_history[scan' - 1]
                delta == Abs(resp'.filled - row.filled)
            IN  /\ delayed_reward' =
                     Add(delayed_reward,
                         calc_reward(delta, resp'.vwap, Num(delta, row.quantity),
                                     FALSE, resp'.vwap_m))
                /\ order_history'[scan' - 1] =
                     [row EXCEPT !.i_filled = time, !.filled = resp'.filled,
                                 !.vwap = resp'.vwap,
                                 !.active = (resp'.status = "OPEN")]
       /\ (direction = 1 /\ reward_signal.collection = "harvested"
           /\ reward_signal.method = "VWAP_TARGET") =>
            calc_reward(30, <<19, 2>>, Num(30, 100), FALSE, Whole(9)) = <<3, 20>>]_vars

C5_Witness ==
    /\ pc = "delayed_fill"
    /\ resp.op = "order"
    /\ scan = 2
    /\ order_history[1].filled = 2
    /\ order_history[1].quantity = 2
    /\ order_history[1].i_filled = time
    /\ order_history[1].i_placed # time
    /\ delayed_reward # Whole(0)
    /\ direction = 1
    /\ reward_signal.method = "VWAP_TARGET"
    /\ reward_signal.collection = "harvested"

\* C6: a MARKET dispatch with a quantity calls cancel-all, then fetches the
\* position, then submits one order: of type MARKET, for |inventory - position|
\* of the position just fetched, SELL when direction is 1 and BUY otherwise
C6_MarketDispatch ==
    [][(pc = "execute" /\ pc' # "execute" /\ action'[1] = 1 /\ action'[3] # 0) =>
         LET new == SubSeq(calls', Len(calls) + 1, Len(calls'))
             posts == {k \in DOMAIN new : new[k].op = "post"}
         IN  /\ Len(new) >= 3
             /\ new[1].op = "cancel"
             /\ new[3].op = "securities"
             /\ pc' = "refresh" =>
                  /\ ~position'.none
                  /\ posts = {4}
                  /\ new[4].arg = <<"MARKET", Abs(inventory - position'.v), 0,
                                    IF direction = 1 THEN "SELL" ELSE "BUY">>]_vars

C6_Witness ==
    /\ pc = "refresh"
    /\ action[1] = 1
    /\ action[3] = 1
    /\ direction = -1
    /\ \E k \in DOMAIN calls : calls[k].arg = <<"MARKET", 2, 0, "BUY">>

\* C7: a step returns done exactly when the tick it polled on entry, the only
\* tick it polls, is at or past end_time
C7_DoneIff ==
    pc = "return" =>
        /\ ret.done = (time >= end_time)
        /\ calls[1].op = "case"
        /\ \A k \in 2 .. Len(calls) : calls[k].op # "case"

C7_Witness ==
    /\ pc = "return"
    /\ time > end_time
    /\ ret.done

Restricted(tape) == SelectSeq(tape, LAMBDA e : e.tick >= start_time)

RECURSIVE SumQuantity(_)
SumQuantity(trades) ==
    IF trades = << >> THEN 0 ELSE Head(trades).quantity + SumQuantity(Tail(trades))

RECURSIVE SumNotional(_)
SumNotional(trades) ==
    IF trades = << >> THEN 0
    ELSE Head(trades).price * Head(trades).quantity + SumNotional(Tail(trades))

\* C9, as stated: market_vwap is null exactly when the tape restricted to
\* ticks >= start_time is empty, 0 when the restricted tape is not empty and
\* its quantity sums to zero, and the quotient of the sums otherwise
C9_Original ==
    (probe.fn = "calc_vwap" /\ probe.returned /\ probe.resp.ok) =>
        LET trades == Restricted(probe.resp.tape)
        IN  /\ (probe.out = NULL) = (trades = << >>)
            /\ (trades # << >> /\ SumQuantity(trades) = 0) => probe.out = Whole(0)
            /\ SumQuantity(trades) # 0 =>
                 probe.out = Num(SumNotional(trades), SumQuantity(trades))

\* what _calc_vwap computes instead (the other side of the C9 divergence):
\* market_vwap is null exactly when the exchange is unreachable or
\* the whole tape, before any restriction, is empty; it is 0 when the tape is
\* not empty and the quantity of its trades at ticks >= start_time sums to
\* zero, a tape of trades all before start_time included; and the quotient of
\* the sums over the restricted tape otherwise
C9_VwapNullZero ==
    (probe.fn = "calc_vwap" /\ probe.returned) =>
        LET trades == Restricted(probe.resp.tape)
        IN  /\ (probe.out = NULL) = (~probe.resp.ok \/ probe.resp.tape = << >>)
            /\ (probe.resp.ok /\ probe.resp.tape # << >> /\ SumQuantity(trades) = 0) =>
                 probe.out = Whole(0)
            /\ (probe.resp.ok /\ SumQuantity(trades) # 0) =>
                 probe.out = Num(SumNotional(trades), SumQuantity(trades))

C9_Witness ==
    /\ probe.fn = "calc_vwap"
    /\ probe.returned
    /\ probe.resp.ok
    /\ Len(probe.resp.tape) = 2
    /\ Restricted(probe.resp.tape) = << >>
    /\ probe.out = Whole(0)

\* C10: under harvested/VWAP_TARGET a fill that is not terminal, of a portion
\* above 0, at an execution price above the market vwap, is rewarded above 0
\* when direction is 1 and below 0 when direction is -1
C10_RewardSign ==
    (/\ probe.fn = "calc_reward" /\ probe.returned
     /\ reward_signal = [collection |-> "harvested", method |-> "VWAP_TARGET"]
     /\ ~probe.done
     /\ Less(Whole(0), probe.portion)
     /\ probe.vwap_e # NULL /\ probe.vwap_m # NULL
     /\ Less(probe.vwap_m, probe.vwap_e)) =>
        /\ probe.out # RAISE
        /\ direction = 1 => Less(Whole(0), probe.out)
        /\ direction = -1 => Less(probe.out, Whole(0))

C10_Witness ==
    /\ probe.fn = "calc_reward"
    /\ probe.returned
    /\ reward_signal = [collection |-> "harvested", method |-> "VWAP_TARGET"]
    /\ ~probe.done
    /\ probe.portion = <<1, 2>>
    /\ probe.vwap_e = Whole(2)
    /\ probe.vwap_m = Whole(1)
    /\ direction = -1
    /\ probe.out = <<-1, 2>>

\* C11: with a market vwap that is a number, the reward is 0 when the execution
\* price is null; under collection terminal it is quantity x (execution price -
\* market vwap) x direction at termination and 0 before; under
\* harvested/VWAP_PNL it is quantity x market vwap x -direction at termination
\* and quantity x execution price x direction before; under
\* harvested/VWAP_TARGET it is 0 at termination and (execution price - market
\* vwap) x direction x portion before
C11_RewardTable ==
    (probe.fn = "calc_reward" /\ probe.returned /\ probe.vwap_m # NULL) =>
        LET q == Whole(probe.quantity)
            e == probe.vwap_e
            m == probe.vwap_m
            d == Whole(direction)
        IN  /\ e = NULL => probe.out = Whole(0)
            /\ (e # NULL /\ reward_signal.collection = "terminal") =>
                 probe.out = IF probe.done THEN Mul(Mul(q, Sub(e, m)), d) ELSE Whole(0)
            /\ (e # NULL /\ reward_signal.collection = "harvested"
                /\ reward_signal.method = "VWAP_PNL") =>
                 probe.out = IF probe.done THEN Mul(Mul(q, m), Whole(-direction))
                             ELSE Mul(Mul(q, e), d)
            /\ (e # NULL /\ reward_signal.collection = "harvested"
                /\ reward_signal.method = "VWAP_TARGET") =>
                 probe.out = IF probe.done THEN Whole(0)
                             ELSE Mul(Mul(Sub(e, m), d), probe.portion)

C11_Witness ==
    /\ probe.fn = "calc_reward"
    /\ probe.returned
    /\ reward_signal = [collection |-> "harvested", method |-> "VWAP_PNL"]
    /\ direction = 1
    /\ probe.done
    /\ probe.quantity = 2
    /\ probe.vwap_e = Whole(1)
    /\ probe.vwap_m = Whole(2)
    /\ probe.out = Whole(-4)

\* C12: whenever reset returns, the status polled last is ACTIVE and the tick
\* polled last is within one unit of start_time, whatever the polls answered
C12_ResetBarrier ==
    pc = "reset_return" =>
        /\ status = "ACTIVE"
        /\ Abs(time - start_time) <= 1

\* C13: whatever gateway calls fail, no step ends in an exception
C13_StepTotal == pc # "raised"

\* the poll this transition makes of a row during a reconciliation pass
Polled == pc = "delayed_fill" /\ scan' # scan

\* C14: a reconciliation pass issues get_order only for rows that are active,
\* and writes no field of a row that is inactive
C14_InactiveUntouched ==
    [][pc = "delayed_fill" =>
         /\ \A k \in Len(calls) + 1 .. Len(calls') :
               calls'[k].op = "order" =>
                  \E j \in DOMAIN order_history :
                     /\ order_history[j].order_id = calls'[k].arg[1]
                     /\ order_history[j].active
         /\ \A j \in DOMAIN order_history :
               ~order_history[j].active => order_history'[j] = order_history[j]]_vars

C14_Witness ==
    /\ pc = "execute"
    /\ nsteps = 2
    /\ Len(order_history) = 1
    /\ ~order_history[1].active
    /\ order_history[1].filled < order_history[1].quantity
    /\ \A k \in DOMAIN calls : calls[k].op # "order"

\* C15, as stated: a poll of an active row that answers the null sentinel or
\* the stored filled quantity leaves the row and the deferred reward as they
\* were, and the row is polled again in the next pass: the next pass polls the
\* rows active when the step returns, so the row is active then
C15_Original ==
    [][/\ (Polled /\ (resp'.none \/ resp'.filled = order_history[scan' - 1].filled)) =>
            /\ order_history' = order_history
            /\ delayed_reward' = delayed_reward
       /\ pc' = "return" => \A i \in kept' : order_history'[i].active]_vars

\* C15, amended: such a poll leaves the row and the deferred reward as they
\* were, and the row is active when the step returns, to be polled again in
\* the next pass, unless the cancel-all of this step's CANCEL or MARKET
\* dispatch has deactivated it and stamped it cancelled at the current tick
C15_NoSpuriousEffect ==
    [][/\ (Polled /\ (resp'.none \/ resp'.filled = order_history[scan' - 1].filled)) =>
            /\ order_history' = order_history
            /\ delayed_reward' = delayed_reward
       /\ pc' = "return" =>
            \A i \in kept' :
               \/ order_history'[i].active
               \/ /\ order_history'[i].i_cancelled = time'
                  /\ \E k \in DOMAIN calls' : calls'[k].op = "cancel"]_vars

C15_Witness ==
    /\ pc = "return"
    /\ kept = {1}
    /\ order_history[1].active
    /\ order_history[1].i_placed # time
    /\ Len(order_history) = 2

\* C16: a poll that reaches the exchange and is answered a status other than
\* OPEN leaves the row inactive, whether or not the filled quantity changed
C16_ActiveTracksStatus ==
    [][(Polled /\ ~resp'.none /\ resp'.status # "OPEN") =>
         ~order_history'[scan' - 1].active]_vars

\* C17: the deferred reward is 0 whenever no pass is running, at the return of
\* a step in particular, so that a pass starts from 0; the step's reward
\* starts as the deferred reward of its own pass, the dispatch and the
\* terminal term only add to it, and the sum is what the step returns
C17_ConsumedOnce ==
    [][/\ pc' \notin {"delayed_fill", "raised"} => delayed_reward' = Whole(0)
       /\ (pc = "idle" /\ pc' = "delayed_fill") => delayed_reward' = Whole(0)
       /\ (pc = "delayed_fill" /\ pc' = "execute") => reward' = delayed_reward
       /\ (pc = "execute" /\ pc' = "refresh") =>
            reward' = IF Len(order_history') > Len(order_history)
                      THEN Add(reward,
                               calc_reward(action'[2] * order_history'[Len(order_history')].quantity,
                                           resp'.vwap, Whole(1), FALSE, resp'.vwap_m))
                      ELSE reward
       /\ (pc = "refresh" /\ pc' = "return") =>
            ret'.reward = IF ret'.done
                          THEN Add(reward, calc_reward(inventory, cost', Whole(1), TRUE,
                                                       resp'.vwap_m))
                          ELSE reward]_vars

C17_Witness ==
    /\ pc = "return"
    /\ nsteps = 2
    /\ Len(order_history) = 1
    /\ order_history[1].i_filled = time
    /\ order_history[1].i_placed # time
    /\ ~ret.done
    /\ ret.reward # Whole(0)
    /\ delayed_reward = Whole(0)

\* C18: a step polls the tick first and only once; when the dispatch begins
\* every active row has been polled in this step; every get_order comes before
\* any cancel-all or submission; the refresh of position, vwap and pending and
\* the observation come after the dispatch; and done is decided by the tick
\* polled first
C18_StepOrdering ==
    /\ pc \in {"delayed_fill", "execute", "refresh", "return"} =>
          /\ calls[1].op = "case"
          /\ \A k \in 2 .. Len(calls) : calls[k].op # "case"
    /\ pc = "execute" =>
          \A j \in DOMAIN order_history :
             order_history[j].active =>
                \E k \in DOMAIN calls : calls[k] = OrderCall(order_history[j].order_id)
    /\ pc \in {"execute", "refresh", "return"} =>
          \A k, l \in DOMAIN calls :
             (calls[k].op = "order" /\ calls[l].op \in {"cancel", "post"}) => k < l
    /\ pc = "return" =>
          LET n == Len(calls) - (IF ret.done THEN 1 ELSE 0)
          IN  /\ n >= 7
              /\ [k \in 1 .. 5 |-> calls[n - 5 + k].op] =
                   <<"securities", "tas", "orders", "book", "tas">>
              /\ \A l \in DOMAIN calls :
                   calls[l].op \in {"order", "cancel", "post"} => l < n - 4
              /\ ret.done = (time >= end_time)

C18_Witness ==
    /\ pc = "return"
    /\ ret.done
    /\ calls[2].op = "order"
    /\ \E l, m \in DOMAIN calls :
          /\ l < m
          /\ calls[l].op = "cancel"
          /\ calls[m].op = "post"

\* the dispatch of this transition has run cancel-all
CancelAllRun ==
    /\ pc = "execute"
    /\ \E k \in Len(calls) + 1 .. Len(calls') : calls'[k].op = "cancel"

\* C19: after the cancel-all of a CANCEL or MARKET dispatch no row is gone,
\* every row that was there is inactive, the rows active before are stamped
\* cancelled at the current tick and have no other field changed, the rows
\* inactive before are as they were; a CANCEL dispatch adds no row and reward 0
C19_CancelAllEffect ==
    [][/\ CancelAllRun =>
            /\ Len(order_history') >= Len(order_history)
            /\ \A j \in DOMAIN order_history :
                  /\ ~order_history'[j].active
                  /\ order_history[j].active =>
                       order_history'[j] =
                          [order_history[j] EXCEPT !.active = FALSE, !.i_cancelled = time]
                  /\ ~order_history[j].active => order_history'[j] = order_history[j]
       /\ (pc = "execute" /\ pc' # "execute" /\ action'[1] = 3 /\ action'[3] # 0) =>
            /\ CancelAllRun
            /\ pc' = "refresh"
            /\ Len(order_history') = Len(order_history)
            /\ reward' = reward]_vars

C19_Witness ==
    /\ pc = "refresh"
    /\ action[1] = 3
    /\ action[3] = 1
    /\ Len(order_history) = 1
    /\ ~order_history[1].active
    /\ order_history[1].i_cancelled = time
    /\ order_history[1].i_placed # time
    /\ order_history[1].filled = 0

\* C20: between two resets a row that is inactive stays inactive, whatever
\* the steps do; a row is active only from an OPEN creation to its first
\* deactivation
C20_InactiveAbsorbing ==
    [][/\ pc # "idle" \/ pc' # "reset_wait" =>
            \A j \in DOMAIN order_history :
               /\ j \in DOMAIN order_history'
               /\ ~order_history[j].active => ~order_history'[j].active
       /\ Len(order_history') > Len(order_history) =>
            (order_history'[Len(order_history')].active => resp'.status = "OPEN")]_vars

C20_Witness ==
    /\ pc = "return"
    /\ nsteps = 2
    /\ Len(order_history) = 2
    /\ ~order_history[1].active
    /\ order_history[1].i_placed # time
    /\ order_history[1].i_cancelled = -1
    /\ order_history[1].filled < order_history[1].quantity
    /\ order_history[2].active

====
